---------------------------- MODULE Spec2Model ----------------------------
(***************************************************************************)
(* Model of src/worker.js: a Workers fetch handler that answers CORS       *)
(* preflight itself and hands every other request to a GraphQL engine      *)
(* whose two root fields, chat and askOpenAI, each make one call to the    *)
(* upstream chat-completion API and reshape its JSON answer.               *)
(*                                                                         *)
(* JavaScript values: a string-valued slot holds a string, Undefined or    *)
(* Null; a number- or object-valued slot is a sequence of length 0         *)
(* (undefined) or 1 (the value); an array is a sequence.                   *)
(***************************************************************************)
EXTENDS Integers, Sequences, FiniteSets, TLC

\* ------------------------------------------------------------ bounds
NumReqs == 2      \* request slots of the concurrent specification
MaxFields == 2    \* root fields selected by one GraphQL request
MaxTok == 1       \* largest token count the upstream reports

\* ------------------------------------------------------------ values
Undefined == "<undefined>"
Null == "<null>"

Some(v) == <<v>>
None == <<>>

DefaultModelName == "gpt-3.5-turbo"
ChatSystemPrompt == "reply in Chinese"
AskSystemPrompt == "helpful assistant, answer directly, reply in Chinese"
Temperature == "0.7"
CompletionsUrl == "https://api.openai.com/v1/chat/completions"

ConfigErrorMessage == "OpenAI API key is not configured"
GenericErrorMessage == "Failed to get response from OpenAI"
UpstreamErrorPrefix == "OpenAI API error: "

PreflightStatus == 204
CorsMaxAge == 86400

\* a key check that tests for the empty string only
KeyMissingEmptyOnly(apiKey) == apiKey = ""

\* if (!apiKey): undefined, null and the empty string are falsy
KeyMissing(apiKey) == apiKey \in {Undefined, Null, ""}

\* a parameter list without the default
ModelNoDefault(model) == model

\* model = "gpt-3.5-turbo" in the parameter list: the default applies to an
\* absent (undefined) argument only, an explicit null is kept
ModelOrDefault(model) == IF model = Undefined THEN DefaultModelName ELSE model

\* the init object handed to fetch() by the chat resolver
ChatOutbound(apiKey, message) ==
    [url |-> CompletionsUrl,
     method |-> "POST",
     authorization |-> <<"Bearer ", apiKey>>,
     body |-> [model |-> DefaultModelName,
               messages |-> << [role |-> "system", content |-> ChatSystemPrompt],
                               [role |-> "user", content |-> message] >>,
               temperature |-> Temperature]]

\* the init object handed to fetch() by the askOpenAI resolver
AskOutbound(apiKey, prompt, model) ==
    [url |-> CompletionsUrl,
     method |-> "POST",
     authorization |-> <<"Bearer ", apiKey>>,
     body |-> [model |-> model,
               messages |-> << [role |-> "system", content |-> AskSystemPrompt],
                               [role |-> "user", content |-> prompt] >>,
               temperature |-> Temperature]]

\* ------------------------------------------------------------ reshaping
\* data.choices[0].message : a TypeError when choices is undefined, when the
\* array is empty (choices[0] is undefined) or when the first choice has no
\* message; .content of an existing message never throws
FirstMessageThrows(data) ==
    \/ data.choices = None
    \/ Len(data.choices[1]) = 0
    \/ data.choices[1][1].message = None

FirstContent(data) == data.choices[1][1].message[1].content

FirstFinishReason(data) == data.choices[1][1].finish_reason

\* return { text: data.choices[0].message.content }
ChatThrows(data) == FirstMessageThrows(data)

ChatResult(data) == [text |-> FirstContent(data)]

\* a reshaping that derives the total from the two other counts
AskResultComputed(data, model) ==
    LET p == data.usage[1].prompt_tokens
        c == data.usage[1].completion_tokens
    IN  [text |-> FirstContent(data),
         usage |-> [promptTokens |-> p,
                    completionTokens |-> c,
                    totalTokens |-> IF p # None /\ c # None
                                    THEN Some(p[1] + c[1]) ELSE None],
         metadata |-> [model |-> model,
                       finishReason |-> FirstFinishReason(data)]]

\* data.usage.prompt_tokens : a TypeError when usage is undefined
AskThrows(data) == FirstMessageThrows(data) \/ data.usage = None

AskResult(data, model) ==
    [text |-> FirstContent(data),
     usage |-> [promptTokens |-> data.usage[1].prompt_tokens,
                completionTokens |-> data.usage[1].completion_tokens,
                totalTokens |-> data.usage[1].total_tokens],
     metadata |-> [model |-> model,
                   finishReason |-> FirstFinishReason(data)]]

\* ------------------------------------------------------------ resolvers
\* An Error object: its message and, for the upstream error of line 70/115,
\* the upstream payload that JSON.stringify put into the message.
Err(message, payload) == [message |-> message, payload |-> payload]

\* The state of one resolver invocation (one selected root field).
\*   pc        "fetch": awaiting fetch(); "errorJson": awaiting response.json()
\*             of a non-ok response; "json": awaiting response.json() of an ok
\*             response; "done": returned or thrown
\*   outbound  the upstream calls issued, in order
\*   status    the status of the upstream response, once fetch() resolved
\*   data      the parsed body of an ok response, once response.json() resolved
\*   logged    the errors handed to console.error, in order
\*   result    the returned record, if it returned
\*   error     the thrown Error, if it threw
Invocation(sel, pc, outbound, error) ==
    [field |-> sel.field, arg |-> sel.arg, model |-> sel.model, pc |-> pc,
     outbound |-> outbound, status |-> None, data |-> None, logged |-> <<>>,
     result |-> None, error |-> error]

\* chat, up to its first await: the key check, then fetch()
ChatStart(sel, apiKey) ==
    IF KeyMissing(apiKey)
    THEN Invocation(sel, "done", <<>>, Some(Err(ConfigErrorMessage, None)))
    ELSE Invocation(sel, "fetch", <<ChatOutbound(apiKey, sel.arg)>>, None)

\* askOpenAI, up to its first await: the parameter default, the key check,
\* then fetch(); the defaulted model is the local the rest of the body reads
AskStart(sel, apiKey) ==
    LET model == ModelOrDefault(sel.model)
        inv == [sel EXCEPT !.model = model]
    IN  IF KeyMissing(apiKey)
        THEN Invocation(inv, "done", <<>>, Some(Err(ConfigErrorMessage, None)))
        ELSE Invocation(inv, "fetch", <<AskOutbound(apiKey, sel.arg, model)>>, None)

ResolverStart(sel, apiKey) ==
    IF sel.field = "chat" THEN ChatStart(sel, apiKey) ELSE AskStart(sel, apiKey)

\* a catch block that rethrows what it caught
CatchRethrow(f, error) ==
    [f EXCEPT !.pc = "done",
              !.logged = Append(@, error),
              !.error = Some(error)]

\* a catch block that does not log
CatchNoLog(f, error) ==
    [f EXCEPT !.pc = "done",
              !.error = Some(Err(GenericErrorMessage, None))]

\* catch (error) { console.error(..., error); throw new Error('Failed ...') }
CatchHandler(f, error) ==
    [f EXCEPT !.pc = "done",
              !.logged = Append(@, error),
              !.error = Some(Err(GenericErrorMessage, None))]

\* return {...} inside the try block
Return(f, record) == [f EXCEPT !.pc = "done", !.result = Some(record)]

\* response.ok: a status in the range 200-299
ResponseOk(status) == status >= 200 /\ status <= 299

\* a resolver that calls the upstream a second time when the first call fails
AfterFetchRetry(f, outcome) ==
    IF outcome.rejected \/ ~ResponseOk(outcome.status)
    THEN IF Len(f.outbound) < 2
         THEN [f EXCEPT !.outbound = Append(@, @[1])]
         ELSE CatchHandler(f, Err("fetch failed", None))
    ELSE [f EXCEPT !.status = Some(outcome.status), !.pc = "json"]

\* fetch() settles: it rejects (network failure) or resolves with a response;
\* the resolver then awaits response.json() on either branch of if (!response.ok)
AfterFetch(f, outcome) ==
    IF outcome.rejected
    THEN CatchHandler(f, Err("fetch failed", None))
    ELSE [f EXCEPT !.status = Some(outcome.status),
                   !.pc = IF ResponseOk(outcome.status) THEN "json" ELSE "errorJson"]

\* response.json() settles: it rejects (the body is not JSON) or resolves with
\* the parsed body
AfterJson(f, outcome) ==
    IF outcome.rejected
    THEN CatchHandler(f, Err("SyntaxError", None))
    ELSE IF f.pc = "errorJson"
    THEN CatchHandler(f, Err(UpstreamErrorPrefix, Some(outcome.body)))
    ELSE LET g == [f EXCEPT !.data = Some(outcome.body)]
         IN  IF f.field = "chat"
             THEN IF ChatThrows(outcome.body)
                  THEN CatchHandler(g, Err("TypeError", None))
                  ELSE Return(g, ChatResult(outcome.body))
             ELSE IF AskThrows(outcome.body)
                  THEN CatchHandler(g, Err("TypeError", None))
                  ELSE Return(g, AskResult(outcome.body, f.model))

\* ------------------------------------------------------------ engine
\* The schema's non-null leaves (typeDefs): ChatResponse.text, and every leaf
\* of OpenAIResponse. A record with an undefined or null leaf cannot be
\* completed.
NullLeaf(field, record) ==
    IF field = "chat"
    THEN record.text \in {Undefined, Null}
    ELSE \/ record.text \in {Undefined, Null}
         \/ record.usage.promptTokens = None
         \/ record.usage.completionTokens = None
         \/ record.usage.totalTokens = None
         \/ record.metadata.model \in {Undefined, Null}
         \/ record.metadata.finishReason \in {Undefined, Null}

Settled(f) == f.pc = "done"

Threw(f) == f.pc = "done" /\ f.error # None

Returned(f) == f.pc = "done" /\ f.result # None

\* A root field fails when its resolver throws or its record cannot be
\* completed; chat and askOpenAI are declared non-null (ChatResponse!,
\* OpenAIResponse!), so the failure of either nulls the whole data.
FieldFailed(f) ==
    \/ Threw(f)
    \/ Returned(f) /\ NullLeaf(f.field, f.result[1])

PreflightResponse ==
    [status |-> PreflightStatus,
     body |-> Null,
     headers |-> [AllowOrigin |-> "*",
                  AllowMethods |-> "GET, POST, OPTIONS",
                  AllowHeaders |-> "Content-Type, Authorization, Apollo-Require-Preflight",
                  MaxAge |-> CorsMaxAge]]

\* The engine's answer: data (null, or the completed root fields in selection
\* order) and the paths (root field positions, 0 for a request-level error)
\* of the errors it reports.
EngineResponse(data, errors) == [data |-> data, errors |-> errors]

\* ------------------------------------------------------------ inputs
Reqs == 1..NumReqs

\* the one slot the single-request specifications use
FirstReq == CHOOSE r \in Reqs : \A q \in Reqs : r <= q

TokVals == 0..MaxTok

Chat(message) == [field |-> "chat", arg |-> message, model |-> Undefined]

Ask(prompt, model) == [field |-> "askOpenAI", arg |-> prompt, model |-> model]

\* a parsed request document: valid against the schema, with its root
\* selections in order (the same field may appear under several aliases), or
\* invalid (for instance an unknown field)
Query(selections) == [valid |-> TRUE, selections |-> selections]

InvalidQuery == [valid |-> FALSE, selections |-> <<>>]

Request(method, path, apiKey, query) ==
    [method |-> method, path |-> path, apiKey |-> apiKey, query |-> query]

NoRequest == Request("", "", Undefined, InvalidQuery)

Rejected == [rejected |-> TRUE]

FetchResolved(status) == [rejected |-> FALSE, status |-> status]

JsonResolved(body) == [rejected |-> FALSE, body |-> body]

\* upstream JSON bodies
Choice(message, finish) == [message |-> message, finish_reason |-> finish]

Message(content) == Some([content |-> content])

Usage(p, c, t) == Some([prompt_tokens |-> p, completion_tokens |-> c, total_tokens |-> t])

Body(choices, usage) == [choices |-> choices, usage |-> usage, error |-> Undefined]

ErrorBody(text) == [choices |-> None, usage |-> None, error |-> text]

GoodBody == Body(Some(<<Choice(Message("ni hao"), "stop")>>), Usage(Some(1), Some(1), Some(2)))

NoContentBody == Body(Some(<<Choice(Message(Undefined), "stop")>>), Usage(Some(1), Some(1), Some(2)))

ChoicesShapes ==
    {None, Some(<<>>)}
    \cup {Some(<<Choice(m, fr)>>) :
            m \in {None, Message(Undefined), Message("ni hao")},
            fr \in {Undefined, "stop"}}

\* every triple of reported counts, and the triples with one count missing
UsageShapes ==
    {None}
    \cup {Usage(Some(p), Some(c), Some(t)) : p \in TokVals, c \in TokVals, t \in TokVals}
    \cup {Usage(None, Some(0), Some(0)), Usage(Some(0), None, Some(0)),
          Usage(Some(0), Some(0), None)}

\* --- one request, one root field, every shape of upstream answer
DetailRequests ==
    {Request(m, p, k, q) :
        m \in {"OPTIONS", "GET", "POST"},
        p \in {"/", "/graphql"},
        k \in {Undefined, "", "sk-test"},
        q \in {InvalidQuery}
              \cup {Query(<<Chat(a)>>) : a \in {"", "hi"}}
              \cup {Query(<<Ask(a, mo)>>) : a \in {"hi"}, mo \in {Undefined, Null, "gpt-4"}}}

DetailFetchOutcomes == {Rejected} \cup {FetchResolved(s) : s \in {200, 429, 500}}

DetailJsonOutcomes ==
    {Rejected}
    \cup {JsonResolved(ErrorBody(t)) : t \in {"rate limit", "server error"}}
    \cup {JsonResolved(Body(ch, us)) : ch \in ChoicesShapes, us \in UsageShapes}

\* --- one request, up to MaxFields root fields
RootSelections ==
    {Chat("hi"), Chat(""), Ask("hi", Undefined), Ask("hi", Null), Ask("hi", "gpt-4")}

SelectionSeqs(n) == [1..n -> RootSelections]

FieldsRequests ==
    {Request(m, "/", k, q) :
        m \in {"OPTIONS", "POST"},
        k \in {Undefined, "sk-test"},
        q \in {InvalidQuery}
              \cup {Query(s) : s \in UNION {SelectionSeqs(n) : n \in 1..MaxFields}}}

FieldsFetchOutcomes == {Rejected, FetchResolved(200), FetchResolved(429)}

FieldsJsonOutcomes ==
    {JsonResolved(GoodBody), JsonResolved(NoContentBody), JsonResolved(ErrorBody("rate limit"))}

\* --- concurrent requests
ConcRequests ==
    {Request(m, "/", k, q) :
        m \in {"OPTIONS", "POST"},
        k \in {Undefined, "sk-test"},
        q \in {Query(<<Chat("hi")>>), Query(<<Chat("hi"), Chat("hi")>>)}}

ConcFetchOutcomes == {Rejected, FetchResolved(200)}

ConcJsonOutcomes == {JsonResolved(GoodBody)}

\* ------------------------------------------------------------ state
VARIABLES
    phase,      \* per request: "idle", "engine" (handed to yoga.fetch),
                \* "executing" (resolvers called), "responded"
    request,    \* per request: the inbound request and its env
    handed,     \* per request: whether yoga.fetch was called with it
    fields,     \* per request: the resolver invocations, in selection order
    response    \* per request: the HTTP response, once produced

vars == <<phase, request, handed, fields, response>>

Init ==
    /\ phase = [r \in Reqs |-> "idle"]
    /\ request = [r \in Reqs |-> NoRequest]
    /\ handed = [r \in Reqs |-> FALSE]
    /\ fields = [r \in Reqs |-> <<>>]
    /\ response = [r \in Reqs |-> None]

\* a handler without the preflight branch
FetchNoPreflight(r, req) ==
    /\ phase[r] = "idle"
    /\ request' = [request EXCEPT ![r] = req]
    /\ handed' = [handed EXCEPT ![r] = TRUE]
    /\ phase' = [phase EXCEPT ![r] = "engine"]
    /\ UNCHANGED <<response, fields>>

\* export default { fetch(request, env, ctx) }: OPTIONS is answered here, any
\* other method is handed to yoga.fetch with { env }
Fetch(r, req) ==
    /\ phase[r] = "idle"
    /\ request' = [request EXCEPT ![r] = req]
    /\ IF req.method = "OPTIONS"
       THEN /\ response' = [response EXCEPT ![r] = Some(PreflightResponse)]
            /\ phase' = [phase EXCEPT ![r] = "responded"]
            /\ UNCHANGED handed
       ELSE /\ handed' = [handed EXCEPT ![r] = TRUE]
            /\ phase' = [phase EXCEPT ![r] = "engine"]
            /\ UNCHANGED response
    /\ UNCHANGED fields

\* The engine parses and validates the document; an invalid one is answered
\* with an error and no resolver runs. Otherwise it calls the resolver of
\* every selected root field, each running up to its first await.
Execute(r) ==
    /\ phase[r] = "engine"
    /\ LET q == request[r].query
       IN  IF ~q.valid
           THEN /\ response' = [response EXCEPT ![r] = Some(EngineResponse(None, {0}))]
                /\ phase' = [phase EXCEPT ![r] = "responded"]
                /\ UNCHANGED fields
           ELSE /\ fields' = [fields EXCEPT ![r] =
                       [i \in 1..Len(q.selections) |->
                           ResolverStart(q.selections[i], request[r].apiKey)]]
                /\ phase' = [phase EXCEPT ![r] = "executing"]
                /\ UNCHANGED response
    /\ UNCHANGED <<request, handed>>

\* the upstream answers (or the network fails) and the resolver resumes
FetchSettle(r, outcomes) ==
    /\ \E i \in DOMAIN fields[r], outcome \in outcomes :
          /\ fields[r][i].pc = "fetch"
          /\ fields' = [fields EXCEPT ![r][i] = AfterFetch(@, outcome)]
    /\ UNCHANGED <<phase, request, handed, response>>

\* the body has been read and parsed (or could not be) and the resolver resumes
JsonSettle(r, outcomes) ==
    /\ \E i \in DOMAIN fields[r], outcome \in outcomes :
          /\ fields[r][i].pc \in {"json", "errorJson"}
          /\ fields' = [fields EXCEPT ![r][i] = AfterJson(@, outcome)]
    /\ UNCHANGED <<phase, request, handed, response>>

\* an engine whose root fields are nullable: a failed field is null in data and
\* its siblings stay
RespondPartial(r) ==
    /\ phase[r] = "executing"
    /\ LET fs == fields[r]
           failed == {i \in DOMAIN fs : FieldFailed(fs[i])}
       IN  /\ \A i \in DOMAIN fs : Settled(fs[i])
           /\ response' = [response EXCEPT ![r] =
                  Some(EngineResponse(
                           Some([i \in DOMAIN fs |->
                                   IF i \in failed THEN [text |-> Null]
                                   ELSE fs[i].result[1]]),
                           failed))]
    /\ phase' = [phase EXCEPT ![r] = "responded"]
    /\ UNCHANGED <<request, handed, fields>>

\* an engine that answers the requests one at a time, in slot order
RespondInOrder(r) ==
    /\ phase[r] = "executing"
    /\ \A q \in Reqs : q < r => phase[q] \in {"idle", "responded"}
    /\ LET fs == fields[r]
           failed == {i \in DOMAIN fs : FieldFailed(fs[i])}
       IN  IF failed # {}
           THEN \E i \in failed :
                    response' = [response EXCEPT ![r] = Some(EngineResponse(None, {i}))]
           ELSE /\ \A i \in DOMAIN fs : Settled(fs[i])
                /\ response' = [response EXCEPT ![r] =
                       Some(EngineResponse(Some([i \in DOMAIN fs |-> fs[i].result[1]]), {}))]
    /\ phase' = [phase EXCEPT ![r] = "responded"]
    /\ UNCHANGED <<request, handed, fields>>

\* The engine answers once every root field has settled, or as soon as one
\* has failed: both root fields are non-null, so a failure nulls data and the
\* engine does not wait for the siblings. With no failure data holds every
\* field's record.
Respond(r) ==
    /\ phase[r] = "executing"
    /\ LET fs == fields[r]
           failed == {i \in DOMAIN fs : FieldFailed(fs[i])}
       IN  IF failed # {}
           THEN \E i \in failed :
                    response' = [response EXCEPT ![r] = Some(EngineResponse(None, {i}))]
           ELSE /\ \A i \in DOMAIN fs : Settled(fs[i])
                /\ response' = [response EXCEPT ![r] =
                       Some(EngineResponse(Some([i \in DOMAIN fs |-> fs[i].result[1]]), {}))]
    /\ phase' = [phase EXCEPT ![r] = "responded"]
    /\ UNCHANGED <<request, handed, fields>>

\* ------------------------------------------------------------ specifications
\* one request with one root field, every shape of upstream answer
Next ==
    \/ \E req \in DetailRequests : Fetch(FirstReq, req)
    \/ Execute(FirstReq)
    \/ FetchSettle(FirstReq, DetailFetchOutcomes)
    \/ JsonSettle(FirstReq, DetailJsonOutcomes)
    \/ Respond(FirstReq)

Spec == Init /\ [][Next]_vars

\* one request with up to MaxFields root fields
NextFields ==
    \/ \E req \in FieldsRequests : Fetch(FirstReq, req)
    \/ Execute(FirstReq)
    \/ FetchSettle(FirstReq, FieldsFetchOutcomes)
    \/ JsonSettle(FirstReq, FieldsJsonOutcomes)
    \/ Respond(FirstReq)

FieldsSpec == Init /\ [][NextFields]_vars

\* concurrent requests; the runtime runs the handler and the engine whenever
\* they can run, the upstream answers or not as it pleases
NextConc ==
    \E r \in Reqs :
        \/ \E req \in ConcRequests : Fetch(r, req)
        \/ Execute(r)
        \/ FetchSettle(r, ConcFetchOutcomes)
        \/ JsonSettle(r, ConcJsonOutcomes)
        \/ Respond(r)

ConcSpec ==
    /\ Init
    /\ [][NextConc]_vars
    /\ \A r \in Reqs : WF_vars(Execute(r)) /\ WF_vars(Respond(r))

\* ------------------------------------------------------------ claims
Invocations == UNION {{<<r, i>> : i \in DOMAIN fields[r]} : r \in Reqs}

Inv(p) == fields[p[1]][p[2]]

Sel(p) == request[p[1]].query.selections[p[2]]

\* C1: with OPENAI_API_KEY absent, an invocation of chat or of askOpenAI has
\* thrown 'OpenAI API key is not configured' (not the generic message), has
\* returned nothing and has issued no upstream call, whatever its arguments.
C1_MissingKeyFailsWithoutCall ==
    \A p \in Invocations :
        request[p[1]].apiKey = Undefined =>
            /\ Inv(p).pc = "done"
            /\ Inv(p).error # None
            /\ Inv(p).error[1].message = "OpenAI API key is not configured"
            /\ Inv(p).error[1].message # "Failed to get response from OpenAI"
            /\ Inv(p).result = None
            /\ Inv(p).outbound = <<>>

\* a request without the key whose chat and askOpenAI fields have both run
C1_Witness ==
    \E r \in Reqs :
        /\ request[r].apiKey = Undefined
        /\ \E i, j \in DOMAIN fields[r] :
              /\ fields[r][i].field = "chat"
              /\ fields[r][j].field = "askOpenAI"
              /\ Sel(<<r, j>>).model = "gpt-4"
              /\ Threw(fields[r][i]) /\ Threw(fields[r][j])

\* C2: a request whose method is OPTIONS, on any path and with or without
\* the key, is answered with status 204, no body and the four fixed CORS
\* headers; it is never handed to the engine, no resolver runs and no upstream
\* call is made. A request with any other method is handed to the engine.
C2_PreflightShortCircuit ==
    \A r \in Reqs :
        phase[r] # "idle" =>
            IF request[r].method = "OPTIONS"
            THEN /\ phase[r] = "responded"
                 /\ response[r] =
                       Some([status |-> 204,
                             body |-> Null,
                             headers |->
                               [AllowOrigin |-> "*",
                                AllowMethods |-> "GET, POST, OPTIONS",
                                AllowHeaders |->
                                  "Content-Type, Authorization, Apollo-Require-Preflight",
                                MaxAge |-> 86400]])
                 /\ ~handed[r]
                 /\ fields[r] = <<>>
            ELSE handed[r]

\* an OPTIONS request on a path other than the root, with the key configured,
\* has been answered
C2_Witness ==
    \E r \in Reqs :
        /\ request[r].method = "OPTIONS"
        /\ request[r].path = "/graphql"
        /\ request[r].apiKey = "sk-test"
        /\ request[r].query.valid
        /\ phase[r] = "responded"

\* C3: with the key present, an invocation whose upstream response had a
\* non-success status has thrown exactly 'Failed to get response from OpenAI',
\* an error that carries nothing of the upstream payload, and has logged
\* exactly once.
C3_UpstreamFailureIsGeneric ==
    \A p \in Invocations :
        (Inv(p).pc = "done" /\ Inv(p).status # None /\ ~ResponseOk(Inv(p).status[1])) =>
            /\ Inv(p).result = None
            /\ Inv(p).error = Some([message |-> "Failed to get response from OpenAI",
                                    payload |-> None])
            /\ Len(Inv(p).logged) = 1

\* an askOpenAI invocation has failed on a 429 answer with a JSON error body
C3_Witness ==
    \E p \in Invocations :
        /\ Inv(p).field = "askOpenAI"
        /\ Inv(p).pc = "done"
        /\ Inv(p).status = Some(429)
        /\ Inv(p).logged = <<Err(UpstreamErrorPrefix, Some(ErrorBody("rate limit")))>>

\* the root fields of request r that have issued an upstream call
Callers(r) == {i \in DOMAIN fields[r] : fields[r][i].outbound # <<>>}

\* C4 (as claimed): a request, whatever it selects, issues at most one
\* upstream call.
C4_OneCallPerRequest ==
    \A r \in Reqs :
        /\ Cardinality(Callers(r)) <= 1
        /\ \A i \in DOMAIN fields[r] : Len(fields[r][i].outbound) <= 1

\* C4 (amended): every resolver invocation issues at most one upstream call,
\* also after the upstream failed; a resolver runs once per selected root
\* field, so a request issues at most as many calls as it selects root fields
\* and a request that selects one root field issues at most one.
C4_OneCallPerField ==
    \A r \in Reqs :
        /\ \A i \in DOMAIN fields[r] : Len(fields[r][i].outbound) <= 1
        /\ Len(fields[r]) <= Len(request[r].query.selections)
        /\ Cardinality(Callers(r)) <= Len(request[r].query.selections)
        /\ Len(request[r].query.selections) = 1 => Cardinality(Callers(r)) <= 1

\* two root fields have each issued their call, and one of them has failed on
\* a non-success answer without calling again
C4_Witness ==
    \E r \in Reqs :
        /\ Cardinality(Callers(r)) = 2
        /\ \E i \in DOMAIN fields[r] :
              /\ Threw(fields[r][i])
              /\ fields[r][i].status = Some(429)
              /\ Len(fields[r][i].outbound) = 1

\* the engine's answer to request r
Answer(r) == response[r][1]

Succeeded(f) == Returned(f) /\ ~NullLeaf(f.field, f.result[1])

\* C5 (as claimed): when the engine answers, every root field whose resolver
\* had succeeded has its result in the response data, whatever happened to
\* its siblings.
C5_SiblingResultsSurvive ==
    [][\A r \in Reqs :
          (phase[r] = "executing" /\ phase'[r] = "responded") =>
              \A i \in DOMAIN fields[r] :
                  Succeeded(fields[r][i]) =>
                      /\ response'[r][1].data # None
                      /\ response'[r][1].data[1][i] = fields[r][i].result[1]]_vars

\* C5 (amended): the resolver of every selected root field runs, whatever
\* its siblings do, and a failure is reported at the path of a field that
\* failed; but as both root fields are non-null, a failed field nulls the
\* whole data, and the siblings' results are in data exactly when no root
\* field failed.
C5_FailureNullsData ==
    \A r \in Reqs :
        /\ (phase[r] \in {"executing", "responded"} /\ request[r].query.valid /\ handed[r]) =>
              Len(fields[r]) = Len(request[r].query.selections)
        /\ (phase[r] = "responded" /\ request[r].query.valid /\ handed[r]) =>
              /\ \A i \in Answer(r).errors :
                    i \in DOMAIN fields[r] /\ FieldFailed(fields[r][i])
              /\ (\E i \in DOMAIN fields[r] : FieldFailed(fields[r][i])) =>
                    (Answer(r).data = None /\ Answer(r).errors # {})
              /\ Answer(r).errors # {} => Answer(r).data = None
              /\ Answer(r).errors = {} =>
                    /\ Answer(r).data # None
                    /\ \A i \in DOMAIN fields[r] :
                          Succeeded(fields[r][i])
                          /\ Answer(r).data[1][i] = fields[r][i].result[1]

\* a request was answered with null data although one of its two root fields
\* had succeeded: the other one failed
C5_Witness ==
    \E r \in Reqs :
        /\ phase[r] = "responded"
        /\ Len(fields[r]) = 2
        /\ \E i, j \in DOMAIN fields[r] :
              Succeeded(fields[r][i]) /\ Threw(fields[r][j])
        /\ Answer(r).data = None

\* C6: an askOpenAI invocation whose model argument is absent places
\* 'gpt-3.5-turbo' in the outbound request body and echoes it in
\* metadata.model; and every askOpenAI invocation that returned echoes in
\* metadata.model the model it sent upstream.
C6_DefaultModelSentAndEchoed ==
    \A p \in Invocations :
        Inv(p).field = "askOpenAI" =>
            /\ Sel(p).model = Undefined =>
                  /\ \A k \in DOMAIN Inv(p).outbound :
                        Inv(p).outbound[k].body.model = "gpt-3.5-turbo"
                  /\ Returned(Inv(p)) =>
                        Inv(p).result[1].metadata.model = "gpt-3.5-turbo"
            /\ Returned(Inv(p)) =>
                  /\ Len(Inv(p).outbound) = 1
                  /\ Inv(p).result[1].metadata.model = Inv(p).outbound[1].body.model

\* an askOpenAI invocation without a model argument has returned
C6_Witness ==
    \E p \in Invocations :
        /\ Inv(p).field = "askOpenAI"
        /\ Sel(p).model = Undefined
        /\ Returned(Inv(p))
        /\ Inv(p).outbound[1].body.model = "gpt-3.5-turbo"
        /\ Inv(p).result[1].metadata.model = "gpt-3.5-turbo"

\* the first choice of the upstream body an invocation read
Choice0(p) == Inv(p).data[1].choices[1][1]

\* the counts are all reported and the total is the sum of the other two
Adds(pt, ct, tt) ==
    pt # None /\ ct # None /\ tt # None /\ tt[1] = pt[1] + ct[1]

\* C7: a returned record copies the upstream body field by field: chat
\* returns the single field text, the first choice's message content;
\* askOpenAI returns that text, the upstream's three token counts and the first
\* choice's finish_reason. So, when the three counts are reported, the returned
\* total is the sum of the returned prompt and completion counts exactly when
\* the upstream's total is the sum of the upstream's.
C7_ResultCopiesUpstream ==
    \A p \in Invocations :
        Returned(Inv(p)) =>
            /\ Inv(p).data # None
            /\ IF Inv(p).field = "chat"
               THEN Inv(p).result[1] = [text |-> Choice0(p).message[1].content]
               ELSE LET res == Inv(p).result[1]
                        up == Inv(p).data[1].usage[1]
                    IN  /\ res.text = Choice0(p).message[1].content
                        /\ res.usage.promptTokens = up.prompt_tokens
                        /\ res.usage.completionTokens = up.completion_tokens
                        /\ res.usage.totalTokens = up.total_tokens
                        /\ res.metadata.finishReason = Choice0(p).finish_reason
                        /\ Adds(res.usage.promptTokens, res.usage.completionTokens,
                                res.usage.totalTokens)
                           <=> Adds(up.prompt_tokens, up.completion_tokens,
                                    up.total_tokens)

\* askOpenAI has returned the counts of an upstream whose total is not the sum
C7_Witness ==
    \E p \in Invocations :
        /\ Inv(p).field = "askOpenAI"
        /\ Returned(Inv(p))
        /\ Inv(p).data[1].usage = Usage(Some(1), Some(1), Some(1))
        /\ Inv(p).result[1].usage.totalTokens = Some(1)

\* C8 (as claimed): every invocation that threw, the configuration error
\* included, logged exactly once, and one that returned logged nothing.
C8_EveryFailureLoggedOnce ==
    \A p \in Invocations :
        /\ Threw(Inv(p)) => Len(Inv(p).logged) = 1
        /\ Returned(Inv(p)) => Len(Inv(p).logged) = 0

\* C8 (amended): an invocation that failed on a non-success status or on any
\* other exception inside the try block was caught and logged exactly once;
\* the configuration error is thrown ahead of the try block, is not caught and
\* logs nothing; an invocation that returned logged nothing.
C8_CaughtFailuresLoggedOnce ==
    \A p \in Invocations :
        /\ (Threw(Inv(p)) /\ KeyMissing(request[p[1]].apiKey)) =>
              /\ Inv(p).logged = <<>>
              /\ Inv(p).error[1].message = "OpenAI API key is not configured"
        /\ (Threw(Inv(p)) /\ ~KeyMissing(request[p[1]].apiKey)) =>
              /\ Len(Inv(p).logged) = 1
              /\ Inv(p).error[1].message = "Failed to get response from OpenAI"
        /\ Returned(Inv(p)) => Len(Inv(p).logged) = 0
        /\ Inv(p).pc # "done" => Len(Inv(p).logged) = 0

\* an invocation has failed on a body without choices and logged the TypeError
C8_Witness ==
    \E p \in Invocations :
        /\ Threw(Inv(p))
        /\ Inv(p).status = Some(200)
        /\ Inv(p).logged = <<Err("TypeError", None)>>

\* an ok body lacks a field the resolver of `field` reads
Incomplete(field, data) ==
    \/ data.choices = None
    \/ Len(data.choices[1]) = 0
    \/ data.choices[1][1].message = None
    \/ data.choices[1][1].message[1].content = Undefined
    \/ /\ field = "askOpenAI"
       /\ \/ data.usage = None
          \/ data.usage[1].prompt_tokens = None
          \/ data.usage[1].completion_tokens = None
          \/ data.usage[1].total_tokens = None
          \/ data.choices[1][1].finish_reason = Undefined

\* C9: an invocation that read a success body lacking any field it reads has
\* thrown the generic failure and logged it, and has returned no record.
C9_IncompleteBodyFails ==
    \A p \in Invocations :
        (Inv(p).pc = "done" /\ Inv(p).data # None
         /\ Incomplete(Inv(p).field, Inv(p).data[1])) =>
            /\ Inv(p).result = None
            /\ Inv(p).error = Some(Err("Failed to get response from OpenAI", None))
            /\ Len(Inv(p).logged) = 1

\* every upstream call of request r has settled (returned or rejected, and
\* its body was read or could not be)
AllSettled(r) == \A i \in DOMAIN fields[r] : Settled(fields[r][i])

\* C10 (as claimed): a request is never answered while one of its upstream
\* calls is still pending.
C10_NoAnswerWhileCallPending ==
    \A r \in Reqs : phase[r] = "responded" => AllSettled(r)

\* C10 (amended): a non-preflight request is always taken up by the engine,
\* and once all its upstream calls have settled it is eventually answered,
\* whatever the other requests in flight do; an answer, once produced, never
\* changes; and a request is answered only when all its calls have settled or
\* one of its root fields has failed, so a request that selects one root
\* field whose call never returns is never answered.
C10_AnsweredOnceWhenSettled ==
    /\ \A r \in Reqs : (phase[r] = "engine") ~> (phase[r] # "engine")
    /\ \A r \in Reqs :
          (phase[r] = "executing" /\ AllSettled(r)) ~> (phase[r] = "responded")
    /\ [][\A r \in Reqs :
             response[r] # None => (response'[r] = response[r] /\ phase'[r] = "responded")]_vars
    /\ [](\A r \in Reqs :
             /\ phase[r] = "responded" <=> response[r] # None
             /\ (phase[r] = "responded" /\ handed[r]) =>
                   (AllSettled(r) \/ \E i \in DOMAIN fields[r] : FieldFailed(fields[r][i]))
             /\ (Len(fields[r]) = 1 /\ ~Settled(fields[r][1])) => phase[r] # "responded")

\* one request waits on an upstream call that has not returned while another
\* request has been answered with its data
C10_Witness ==
    \E r, q \in Reqs :
        /\ r # q
        /\ phase[r] = "executing"
        /\ Len(fields[r]) = 1
        /\ fields[r][1].pc = "fetch"
        /\ phase[q] = "responded"
        /\ handed[q]
        /\ Answer(q).data # None

=============================================================================
